---- MODULE Spec2Model ----
(***************************************************************************)
(* Langton's ant (langtons-ant/src/main.rs): the stepping engine           *)
(* compute_ant_position with its four move_from_* helpers, started from    *)
(* the state main() constructs (Ant::new, the rule/colour loop, Grid::new).*)
(*                                                                         *)
(* Vectors are 0-based in the source; grid rows and cells are modelled as  *)
(* functions over 0..dim-1, rule and colours as sequences read at i+1.     *)
(* A Rust index out of range panics; the model records that in panicked.   *)
(***************************************************************************)
EXTENDS Integers, Sequences, FiniteSets

\* ------------------------------------------------------------------------
\* Bounds of the model
\* ------------------------------------------------------------------------

\* Largest grid side explored (the smallest is 3, the end-to-end scenario).
MaxDim == 5

\* Longest rule explored.
MaxRuleLen == 3

\* Stands for u64::max_value(), the saturation point of ant.iterations,
\* scaled down so that a run reaches it.
MaxIterations == 20

\* Calls of compute_ant_position explored after the counter could saturate.
ExtraCalls == 3

\* Longest rule line typed at the prompt.
MaxLineLen == 2

\* Largest grid the whole program is run on (grid sizes start at 10).
MaxSide == 11

\* Rendered frames explored.
MaxFrames == 2

MaxCalls == MaxIterations + ExtraCalls

\* ------------------------------------------------------------------------
\* Program constants and types
\* ------------------------------------------------------------------------

\* usize::max_value(), the "unpainted" cell value, at a 16-bit usize.
usize_max_value == 65535

u64_max_value == MaxIterations

Direction == {"L", "R"}

Facing == {"N", "E", "S", "W"}

\* The palette entries create_random_colour can return, and WHITE.
WHITE == "white"

Colour == {"white", "c1", "c2"}

Dims == 3..MaxDim

RECURSIVE SeqsOfLen(_, _)
SeqsOfLen(S, n) ==
  IF n = 0 THEN {<<>>}
  ELSE {Append(s, e) : s \in SeqsOfLen(S, n - 1), e \in S}

Rules == UNION {SeqsOfLen(Direction, n) : n \in 1..MaxRuleLen}

VARIABLES
  ant,       \* struct Ant
  grid,      \* struct Grid: grid[y][x] is rows[y].cells[x]
  panicked,  \* "no", or which vector index was out of range ("grid",
             \* "rule"): the process has aborted
  calls,     \* history: number of calls of compute_ant_position so far
  visits,    \* history: visits[y][x] counts the repaints of cell (x, y)
  old,       \* history: the ant as it was before the latest call or frame
  driver     \* main's own state: where it is, the lines entered, the
             \* values print_input_requests returned, fps, moves_per_tick

vars == <<ant, grid, panicked, calls, visits, old, driver>>

\* ------------------------------------------------------------------------
\* Construction (main)
\* ------------------------------------------------------------------------

\* Ant::new(x, y)
Ant_new(x, y) ==
  [pos_x |-> x, pos_y |-> y, rule |-> <<>>, colours |-> <<>>,
   facing |-> "N", stalled |-> FALSE, iterations |-> 0]

Grid_new_zeroed(num_rows, num_cols, clr_idx) ==
  [y \in 0..(num_rows - 1) |-> [x \in 0..(num_cols - 1) |-> 0]]

\* Grid::new(num_rows, num_cols, clr_idx)
Grid_new(num_rows, num_cols, clr_idx) ==
  [y \in 0..(num_rows - 1) |-> [x \in 0..(num_cols - 1) |-> clr_idx]]

start_point_round_up(grid_size) == (grid_size + 1) \div 2

\* (grid_size as f64 / 2.0) as usize
start_point(grid_size) == grid_size \div 2

build_ant_skips_colour(a, rule, cols) ==
  [a EXCEPT !.rule = rule, !.colours = SelectSeq(cols, LAMBDA c : c # "c2")]

\* The loop of main over rule.chars(): one Direction and one non-white
\* random colour pushed per character.
build_ant(a, rule, cols) ==
  [a EXCEPT !.rule = rule, !.colours = cols]

Init ==
  \E grid_size \in Dims, rule \in Rules :
    \E cols \in SeqsOfLen(Colour \ {WHITE}, Len(rule)) :
      /\ ant = build_ant(Ant_new(start_point(grid_size), start_point(grid_size)),
                         rule, cols)
      /\ grid = Grid_new(grid_size, grid_size, usize_max_value)
      /\ panicked = "no"
      /\ calls = 0
      /\ visits = [y \in 0..(grid_size - 1) |-> [x \in 0..(grid_size - 1) |-> 0]]
      /\ old = ant
      /\ driver = [pc |-> "stepping"]

\* ------------------------------------------------------------------------
\* The four movers
\* ------------------------------------------------------------------------

move_from_north_off_by_one(ant_dir, dim, a) ==
  IF ant_dir = "L"
  THEN IF 0 = a.pos_x
       THEN [a EXCEPT !.facing = "W", !.stalled = TRUE]
       ELSE [a EXCEPT !.facing = "W", !.pos_x = a.pos_x - 1]
  ELSE IF dim = a.pos_x
       THEN [a EXCEPT !.facing = "E", !.stalled = TRUE]
       ELSE [a EXCEPT !.facing = "E", !.pos_x = a.pos_x + 1]

move_from_north_no_stall(ant_dir, dim, a) ==
  IF ant_dir = "L"
  THEN IF 0 = a.pos_x
       THEN [a EXCEPT !.facing = "W"]
       ELSE [a EXCEPT !.facing = "W", !.pos_x = a.pos_x - 1]
  ELSE IF dim - 1 = a.pos_x
       THEN [a EXCEPT !.facing = "E", !.stalled = TRUE]
       ELSE [a EXCEPT !.facing = "E", !.pos_x = a.pos_x + 1]

move_from_north_stall_keeps_facing(ant_dir, dim, a) ==
  IF ant_dir = "L"
  THEN IF 0 = a.pos_x
       THEN [a EXCEPT !.stalled = TRUE]
       ELSE [a EXCEPT !.facing = "W", !.pos_x = a.pos_x - 1]
  ELSE IF dim - 1 = a.pos_x
       THEN [a EXCEPT !.stalled = TRUE]
       ELSE [a EXCEPT !.facing = "E", !.pos_x = a.pos_x + 1]

move_from_north(ant_dir, dim, a) ==
  IF ant_dir = "L"
  THEN IF 0 = a.pos_x
       THEN [a EXCEPT !.facing = "W", !.stalled = TRUE]
       ELSE [a EXCEPT !.facing = "W", !.pos_x = a.pos_x - 1]
  ELSE IF dim - 1 = a.pos_x
       THEN [a EXCEPT !.facing = "E", !.stalled = TRUE]
       ELSE [a EXCEPT !.facing = "E", !.pos_x = a.pos_x + 1]

move_from_east_off_by_one(ant_dir, dim, a) ==
  IF ant_dir = "L"
  THEN IF 0 = a.pos_y
       THEN [a EXCEPT !.facing = "N", !.stalled = TRUE]
       ELSE [a EXCEPT !.facing = "N", !.pos_y = a.pos_y - 1]
  ELSE IF dim = a.pos_y
       THEN [a EXCEPT !.facing = "S", !.stalled = TRUE]
       ELSE [a EXCEPT !.facing = "S", !.pos_y = a.pos_y + 1]

move_from_east(ant_dir, dim, a) ==
  IF ant_dir = "L"
  THEN IF 0 = a.pos_y
       THEN [a EXCEPT !.facing = "N", !.stalled = TRUE]
       ELSE [a EXCEPT !.facing = "N", !.pos_y = a.pos_y - 1]
  ELSE IF dim - 1 = a.pos_y
       THEN [a EXCEPT !.facing = "S", !.stalled = TRUE]
       ELSE [a EXCEPT !.facing = "S", !.pos_y = a.pos_y + 1]

move_from_south_swapped(ant_dir, dim, a) ==
  IF ant_dir = "L"
  THEN IF 0 = a.pos_x
       THEN [a EXCEPT !.facing = "W", !.stalled = TRUE]
       ELSE [a EXCEPT !.facing = "W", !.pos_x = a.pos_x - 1]
  ELSE IF dim - 1 = a.pos_x
       THEN [a EXCEPT !.facing = "E", !.stalled = TRUE]
       ELSE [a EXCEPT !.facing = "E", !.pos_x = a.pos_x + 1]

move_from_south(ant_dir, dim, a) ==
  IF ant_dir = "L"
  THEN IF dim - 1 = a.pos_x
       THEN [a EXCEPT !.facing = "E", !.stalled = TRUE]
       ELSE [a EXCEPT !.facing = "E", !.pos_x = a.pos_x + 1]
  ELSE IF 0 = a.pos_x
       THEN [a EXCEPT !.facing = "W", !.stalled = TRUE]
       ELSE [a EXCEPT !.facing = "W", !.pos_x = a.pos_x - 1]

move_from_west_wrong_edge(ant_dir, dim, a) ==
  IF ant_dir = "L"
  THEN IF dim - 1 = a.pos_y
       THEN [a EXCEPT !.facing = "S", !.stalled = TRUE]
       ELSE [a EXCEPT !.facing = "S", !.pos_y = a.pos_y + 1]
  ELSE IF dim - 1 = a.pos_y
       THEN [a EXCEPT !.facing = "N", !.stalled = TRUE]
       ELSE [a EXCEPT !.facing = "N", !.pos_y = a.pos_y - 1]

move_from_west(ant_dir, dim, a) ==
  IF ant_dir = "L"
  THEN IF dim - 1 = a.pos_y
       THEN [a EXCEPT !.facing = "S", !.stalled = TRUE]
       ELSE [a EXCEPT !.facing = "S", !.pos_y = a.pos_y + 1]
  ELSE IF 0 = a.pos_y
       THEN [a EXCEPT !.facing = "N", !.stalled = TRUE]
       ELSE [a EXCEPT !.facing = "N", !.pos_y = a.pos_y - 1]

\* ------------------------------------------------------------------------
\* compute_ant_position
\* ------------------------------------------------------------------------

\* grid.rows.len()
grid_dim(g) == Cardinality(DOMAIN g)

\* grid.rows[y].cells[x] is inside both vectors
cell_in_range(g, x, y) == y \in DOMAIN g /\ x \in DOMAIN g[y]

\* the colour index used for the rule lookup: the cell with the
\* unpainted value read as 0
lookup_idx(cell) == IF usize_max_value = cell THEN 0 ELSE cell

\* the colour index written back: incremented, wrapping at colours.len()
next_clr_idx_no_wrap(idx, a) == idx + 1

next_clr_idx_late_wrap(idx, a) ==
  IF Len(a.colours) = idx THEN 0 ELSE idx + 1

next_clr_idx(idx, a) ==
  IF Len(a.colours) = idx + 1 THEN 0 ELSE idx + 1

\* match ant.facing { ... }
move_ant(ant_dir, dim, a) ==
  CASE a.facing = "N" -> move_from_north(ant_dir, dim, a)
    [] a.facing = "E" -> move_from_east(ant_dir, dim, a)
    [] a.facing = "S" -> move_from_south(ant_dir, dim, a)
    [] a.facing = "W" -> move_from_west(ant_dir, dim, a)

count_iteration_wrapping(a) ==
  IF u64_max_value = a.iterations
  THEN [a EXCEPT !.iterations = 0]
  ELSE [a EXCEPT !.iterations = a.iterations + 1]

count_iteration_skip_stalled(a) ==
  IF u64_max_value = a.iterations
  THEN [a EXCEPT !.stalled = TRUE]
  ELSE IF a.stalled THEN a ELSE [a EXCEPT !.iterations = a.iterations + 1]

\* the saturating iteration count
count_iteration(a) ==
  IF u64_max_value = a.iterations
  THEN [a EXCEPT !.stalled = TRUE]
  ELSE [a EXCEPT !.iterations = a.iterations + 1]

step_body_stall_before_move(a, g) ==
  IF ~cell_in_range(g, a.pos_x, a.pos_y)
  THEN [ant |-> a, grid |-> g, panic |-> "grid", painted |-> FALSE]
  ELSE
    LET cell_clr_idx == lookup_idx(g[a.pos_y][a.pos_x]) IN
    IF ~(cell_clr_idx + 1 \in DOMAIN a.rule)
    THEN [ant |-> a, grid |-> g, panic |-> "rule", painted |-> FALSE]
    ELSE
      LET ant_dir == a.rule[cell_clr_idx + 1]
          g2 == [g EXCEPT ![a.pos_y][a.pos_x] = next_clr_idx(cell_clr_idx, a)]
          dim == grid_dim(g2)
      IN [ant |-> IF u64_max_value = a.iterations
                  THEN [a EXCEPT !.stalled = TRUE]
                  ELSE count_iteration(move_ant(ant_dir, dim, a)),
          grid |-> g2, panic |-> "no", painted |-> TRUE]

step_body_paint_after_move(a, g) ==
  IF ~cell_in_range(g, a.pos_x, a.pos_y)
  THEN [ant |-> a, grid |-> g, panic |-> "grid", painted |-> FALSE]
  ELSE
    LET cell_clr_idx == lookup_idx(g[a.pos_y][a.pos_x]) IN
    IF ~(cell_clr_idx + 1 \in DOMAIN a.rule)
    THEN [ant |-> a, grid |-> g, panic |-> "rule", painted |-> FALSE]
    ELSE
      LET ant_dir == a.rule[cell_clr_idx + 1]
          dim == grid_dim(g)
          moved == move_ant(ant_dir, dim, a)
          g2 == [g EXCEPT ![moved.pos_y][moved.pos_x] =
                            next_clr_idx(cell_clr_idx, a)]
      IN [ant |-> count_iteration(moved),
          grid |-> g2, panic |-> "no", painted |-> TRUE]

\* The body after the stalled test; it yields the new ant and grid, or a
\* panic with nothing written when an index is out of range.
step_body(a, g) ==
  IF ~cell_in_range(g, a.pos_x, a.pos_y)
  THEN [ant |-> a, grid |-> g, panic |-> "grid", painted |-> FALSE]
  ELSE
    LET cell_clr_idx == lookup_idx(g[a.pos_y][a.pos_x]) IN
    IF ~(cell_clr_idx + 1 \in DOMAIN a.rule)
    THEN [ant |-> a, grid |-> g, panic |-> "rule", painted |-> FALSE]
    ELSE
      LET ant_dir == a.rule[cell_clr_idx + 1]
          g2 == [g EXCEPT ![a.pos_y][a.pos_x] = next_clr_idx(cell_clr_idx, a)]
          dim == grid_dim(g2)
      IN [ant |-> count_iteration(move_ant(ant_dir, dim, a)),
          grid |-> g2, panic |-> "no", painted |-> TRUE]

stepper_no_stalled_test(a, g) == step_body(a, g)

stepper(a, g) ==
  IF a.stalled
  THEN [ant |-> a, grid |-> g, panic |-> "no", painted |-> FALSE]
  ELSE step_body(a, g)

\* One call of the stepper on the program state s = (ant, grid, panic,
\* visits); after a panic the process is gone and nothing runs.
step_state(s) ==
  IF s.panic # "no"
  THEN s
  ELSE LET r == stepper(s.ant, s.grid) IN
         [ant |-> r.ant, grid |-> r.grid, panic |-> r.panic,
          visits |-> IF r.painted
                     THEN [s.visits EXCEPT ![s.ant.pos_y][s.ant.pos_x] = @ + 1]
                     ELSE s.visits]

\* for _ in 0..k { compute_ant_position(ant_ref, grid_ref); }
RECURSIVE run_steps(_, _)
run_steps(k, s) ==
  IF k <= 0 THEN s ELSE step_state(run_steps(k - 1, s))

compute_ant_position ==
  /\ panicked = "no"
  /\ calls < MaxCalls
  /\ LET r == stepper(ant, grid) IN
       /\ ant' = r.ant
       /\ grid' = r.grid
       /\ panicked' = r.panic
       /\ visits' = IF r.painted
                    THEN [visits EXCEPT ![ant.pos_y][ant.pos_x] = @ + 1]
                    ELSE visits
  /\ calls' = calls + 1
  /\ old' = ant
  /\ UNCHANGED driver

Next == compute_ant_position

Spec == Init /\ [][Next]_vars

\* Repeated stepping: while the window is open the event loop keeps
\* delivering render events, each of which calls the stepper.
SpecFair == Spec /\ WF_vars(Next)

\* ------------------------------------------------------------------------
\* The stepper applied to an ant a caller has placed: any cell of an
\* unpainted grid, any facing (compute_ant_position takes any Ant and Grid).
\* ------------------------------------------------------------------------

placed_ant(x, y, f, rule) ==
  [build_ant(Ant_new(x, y), rule, [i \in 1..Len(rule) |-> "c1"])
     EXCEPT !.facing = f]

InitPlaced ==
  \E grid_size \in Dims, rule \in Rules, f \in Facing :
    \E x \in 0..(grid_size - 1), y \in 0..(grid_size - 1) :
      /\ ant = placed_ant(x, y, f, rule)
      /\ grid = Grid_new(grid_size, grid_size, usize_max_value)
      /\ panicked = "no"
      /\ calls = 0
      /\ visits = [r \in 0..(grid_size - 1) |-> [c \in 0..(grid_size - 1) |-> 0]]
      /\ old = ant
      /\ driver = [pc |-> "stepping"]

SpecPlaced == InitPlaced /\ [][Next]_vars

\* ------------------------------------------------------------------------
\* The whole program: print_input_requests, main's construction, the
\* event loop drawing frames
\* ------------------------------------------------------------------------

\* A rule line is a sequence of characters (the newline left out); a
\* number line is empty, unparsable text, or a number.  Square sizes are
\* explored at whole numbers only.
Chars == {"L", "R", "x", " "}

EmptyLine == [kind |-> "empty", val |-> 0]

TextLine == [kind |-> "text", val |-> 0]

NumLine(n) == [kind |-> "num", val |-> n]

RuleLines == UNION {SeqsOfLen(Chars, n) : n \in 0..MaxLineLen}

MpsLines ==
  {EmptyLine, TextLine}
    \cup {NumLine(n) : n \in {-1, 0, 1, 2, 3, 5, 10, 20, 50, 100, 200, 500, 1000, 1001}}

GridLines ==
  {EmptyLine, TextLine}
    \cup {NumLine(n) : n \in {-1, 9, 1000, 1001} \cup 10..MaxSide}

SquareLines == {EmptyLine, TextLine} \cup {NumLine(n) : n \in {0, 21}}

\* str::trim on a rule line
RECURSIVE trim_start(_)
trim_start(s) ==
  IF s = <<>> \/ Head(s) # " " THEN s ELSE trim_start(Tail(s))

RECURSIVE trim_end(_)
trim_end(s) ==
  IF s = <<>> \/ s[Len(s)] # " " THEN s ELSE trim_end(SubSeq(s, 1, Len(s) - 1))

trim(s) == trim_end(trim_start(s))

read_rule_unchecked(line) ==
  LET t == trim(line)
      rule == IF t = <<>> THEN <<"R", "L">> ELSE t
  IN [ok |-> TRUE, val |-> rule]

\* the rule prompt: trimmed, empty replaced by RL, every char L or R
read_rule(line) ==
  LET t == trim(line)
      rule == IF t = <<>> THEN <<"R", "L">> ELSE t
  IN [ok |-> \A i \in 1..Len(rule) : rule[i] = "L" \/ rule[i] = "R",
      val |-> rule]

\* the moves-per-second prompt: default 10, parsed as i32, one of the list
read_mps(line) ==
  LET mps == IF line.kind = "empty" THEN 10 ELSE line.val
  IN [ok |-> /\ line.kind # "text"
             /\ mps \in {1, 2, 5, 10, 20, 50, 100, 200, 500, 1000},
      val |-> mps]

read_grid_size_loose(line) ==
  LET grid_size == IF line.kind = "empty" THEN 150 ELSE line.val
  IN [ok |-> /\ line.kind # "text"
             /\ grid_size >= 0
             /\ ~((grid_size < 1) \/ (grid_size > 1000)),
      val |-> grid_size]

\* the grid size prompt: default 150, parsed as u32, within 10..1000
read_grid_size(line) ==
  LET grid_size == IF line.kind = "empty" THEN 150 ELSE line.val
  IN [ok |-> /\ line.kind # "text"
             /\ grid_size >= 0
             /\ ~((grid_size < 10) \/ (grid_size > 1000)),
      val |-> grid_size]

\* the square size prompt: default 5, parsed as f64, within 1..20, and
\* grid_size * square_size at most 1000
read_square_size(line, grid_size) ==
  LET square_size == IF line.kind = "empty" THEN 5 ELSE line.val
  IN [ok |-> /\ line.kind # "text"
             /\ ~((square_size < 1) \/ (square_size > 20))
             /\ ~(grid_size * square_size > 1000),
      val |-> square_size]

\* print_input_requests: the four prompts in order; the first bad entry
\* ends the process (process::exit)
print_input_requests(lines) ==
  LET r == read_rule(lines.rule)
      m == read_mps(lines.mps)
      g == read_grid_size(lines.grid_size)
  IN IF ~r.ok \/ ~m.ok \/ ~g.ok
     THEN [ok |-> FALSE]
     ELSE LET q == read_square_size(lines.square_size, g.val)
          IN IF ~q.ok
             THEN [ok |-> FALSE]
             ELSE [ok |-> TRUE, rule |-> r.val, mps |-> m.val,
                   grid_size |-> g.val, square_size |-> q.val]

\* the lines a user may type, those left out that would build a grid
\* larger than MaxSide
InputLines ==
  {l \in [rule : RuleLines, mps : MpsLines,
          grid_size : GridLines, square_size : SquareLines] :
     print_input_requests(l).ok => print_input_requests(l).grid_size <= MaxSide}

tick_settings_typo(mps) ==
  CASE mps = 1 -> <<1, 1>>
    [] mps = 2 -> <<2, 1>>
    [] mps = 5 -> <<5, 1>>
    [] mps = 10 -> <<10, 1>>
    [] mps = 20 -> <<20, 1>>
    [] mps = 50 -> <<50, 1>>
    [] mps = 100 -> <<10, 10>>
    [] mps = 200 -> <<20, 10>>
    [] mps = 500 -> <<50, 10>>
    [] mps = 1000 -> <<50, 10>>
    [] OTHER -> <<1, 1>>

\* let (fps, moves_per_tick) = match mps { ... }
tick_settings(mps) ==
  CASE mps = 1 -> <<1, 1>>
    [] mps = 2 -> <<2, 1>>
    [] mps = 5 -> <<5, 1>>
    [] mps = 10 -> <<10, 1>>
    [] mps = 20 -> <<20, 1>>
    [] mps = 50 -> <<50, 1>>
    [] mps = 100 -> <<10, 10>>
    [] mps = 200 -> <<20, 10>>
    [] mps = 500 -> <<50, 10>>
    [] mps = 1000 -> <<50, 20>>
    [] OTHER -> <<1, 1>>

\* the Directions main pushes for the characters of the rule
main_rule(chars) == SelectSeq(chars, LAMBDA c : c = "L" \/ c = "R")

\* before main has built them
NoAnt == [none |-> TRUE]

NoGrid == <<>>

InitMain ==
  /\ driver = [pc |-> "start"]
  /\ ant = NoAnt
  /\ grid = NoGrid
  /\ panicked = "no"
  /\ calls = 0
  /\ visits = NoGrid
  /\ old = NoAnt

\* main up to the return of print_input_requests
read_input ==
  /\ driver.pc = "start"
  /\ \E lines \in InputLines :
       LET res == print_input_requests(lines)
       IN driver' = [pc |-> IF res.ok THEN "validated" ELSE "exited",
                     entered |-> lines, input |-> res]
  /\ UNCHANGED <<ant, grid, panicked, calls, visits, old>>

\* main from the match on mps to Grid::new
construct ==
  /\ driver.pc = "validated"
  /\ LET in == driver.input
         ts == tick_settings(in.mps)
         sp == start_point(in.grid_size)
     IN /\ \E cols \in SeqsOfLen(Colour \ {WHITE}, Len(in.rule)) :
             ant' = build_ant(Ant_new(sp, sp), main_rule(in.rule), cols)
        /\ grid' = Grid_new(in.grid_size, in.grid_size, usize_max_value)
        /\ visits' = [y \in 0..(in.grid_size - 1) |->
                        [x \in 0..(in.grid_size - 1) |-> 0]]
        /\ driver' = [pc |-> "running", entered |-> driver.entered,
                      input |-> in, fps |-> ts[1], moves_per_tick |-> ts[2],
                      frames |-> 0]
  /\ old' = ant'
  /\ UNCHANGED <<panicked, calls>>

\* the cells the frame draws index the palette: ant_ref.colours[*cell]
palette_in_range(a, g) ==
  \A y \in DOMAIN g : \A x \in DOMAIN g[y] :
    g[y][x] # usize_max_value => g[y][x] + 1 \in DOMAIN a.colours

\* one render event: the draw closure steps the ant moves_per_tick times,
\* then reads every cell of the grid
render_frame ==
  /\ driver.pc = "running"
  /\ panicked = "no"
  /\ driver.frames < MaxFrames
  /\ LET s == run_steps(driver.moves_per_tick,
                        [ant |-> ant, grid |-> grid, panic |-> "no",
                         visits |-> visits])
     IN /\ ant' = s.ant
        /\ grid' = s.grid
        /\ visits' = s.visits
        /\ panicked' = IF s.panic = "no" /\ ~palette_in_range(s.ant, s.grid)
                       THEN "palette"
                       ELSE s.panic
  /\ calls' = calls + driver.moves_per_tick
  /\ old' = ant
  /\ driver' = [driver EXCEPT !.frames = @ + 1]

\* window.next() returns None: the loop and the program end
window_closed ==
  /\ driver.pc = "running"
  /\ panicked = "no"
  /\ driver' = [driver EXCEPT !.pc = "closed"]
  /\ UNCHANGED <<ant, grid, panicked, calls, visits, old>>

NextMain == read_input \/ construct \/ render_frame \/ window_closed

SpecMain == InitMain /\ [][NextMain]_vars

\* ------------------------------------------------------------------------
\* Vocabulary of the properties
\* ------------------------------------------------------------------------

\* rule length N and grid side
N == Len(ant.rule)

dim == grid_dim(grid)

Cells == {<<x, y>> : x \in 0..(dim - 1), y \in 0..(dim - 1)}

pos(a) == <<a.pos_x, a.pos_y>>

\* the ant's own fields the stepper may change
AntState(a) == <<a.pos_x, a.pos_y, a.facing, a.iterations, a.stalled>>

\* the facing x turn table of the design
NewFacing(f, t) ==
  CASE f = "N" -> (IF t = "L" THEN "W" ELSE "E")
    [] f = "E" -> (IF t = "L" THEN "N" ELSE "S")
    [] f = "S" -> (IF t = "L" THEN "E" ELSE "W")
    [] f = "W" -> (IF t = "L" THEN "S" ELSE "N")

\* the unit displacement of a facing applied to a position
Displace(f, p) ==
  CASE f = "N" -> <<p[1], p[2] - 1>>
    [] f = "E" -> <<p[1] + 1, p[2]>>
    [] f = "S" -> <<p[1], p[2] + 1>>
    [] f = "W" -> <<p[1] - 1, p[2]>>

Abs(i) == IF i < 0 THEN -i ELSE i

\* the rule entry of the cell under the ant, the unpainted value read as 0
TurnHere ==
  LET c == grid[ant.pos_y][ant.pos_x]
  IN ant.rule[(IF c = usize_max_value THEN 0 ELSE c) + 1]

\* a call of the stepper on a running ant
RunningStep == ~ant.stalled /\ calls' = calls + 1

\* ------------------------------------------------------------------------
\* Properties
\* ------------------------------------------------------------------------

\* C1: once the ant is stalled, a further call of compute_ant_position
\* leaves pos_x, pos_y, facing, iterations, stalled and every grid cell
\* unchanged.
C1_StalledAbsorbing ==
  [][ant.stalled => (AntState(ant') = AntState(ant) /\ grid' = grid)]_vars

\* the stepper has been called on an already stalled ant
C1_Witness == old.stalled /\ ant.stalled /\ calls >= 2

\* C2: from the centre start, after any sequence of steps the ant stands
\* on a cell of the grid, and no grid read or write was out of range.
C2_PositionInGrid ==
  /\ ant.pos_x >= 0 /\ ant.pos_x < dim
  /\ ant.pos_y >= 0 /\ ant.pos_y < dim
  /\ cell_in_range(grid, ant.pos_x, ant.pos_y)
  /\ panicked # "grid"

\* the ant has walked to an edge of the grid and a step there kept it inside
C2_Witness ==
  /\ calls > 0
  /\ ant.stalled /\ ~old.stalled /\ old.iterations < u64_max_value
  /\ pos(ant) = pos(old)
  /\ (ant.pos_x \in {0, dim - 1} \/ ant.pos_y \in {0, dim - 1})

\* C3: every cell holds the unpainted value or a colour index in [0, N),
\* and the index the next step uses for the rule lookup is in [0, N).
C3_ColourIndexInRange ==
  /\ \A c \in Cells :
       grid[c[2]][c[1]] = usize_max_value \/ grid[c[2]][c[1]] \in 0..(N - 1)
  /\ cell_in_range(grid, ant.pos_x, ant.pos_y)
       => lookup_idx(grid[ant.pos_y][ant.pos_x]) \in 0..(N - 1)
  /\ panicked # "rule"

\* a cell has been repainted N times and wrapped back to index 0, and the
\* ant stands on a painted cell
C3_Witness ==
  /\ N >= 2
  /\ \E c \in Cells : visits[c[2]][c[1]] >= N /\ grid[c[2]][c[1]] = 0
  /\ grid[ant.pos_y][ant.pos_x] # usize_max_value

\* C4: the k-th step executed on a cell writes k mod N into it (the first
\* visit of an unpainted cell writes 1 mod N), whatever the other cells
\* hold, and turns the ant by rule[(k-1) mod N].
C4_RoundRobinPerCell ==
  [][RunningStep =>
       LET x == ant.pos_x
           y == ant.pos_y
           k == visits'[y][x]
       IN /\ k = visits[y][x] + 1
          /\ grid'[y][x] = k % N
          /\ ant'.facing = NewFacing(ant.facing, ant.rule[((k - 1) % N) + 1])]_vars

\* a cell has gone once round the whole cycle and one step further, while
\* another painted cell holds a different index
C4_Witness ==
  /\ N >= 2
  /\ \E c \in Cells, d \in Cells :
       /\ visits[c[2]][c[1]] = N + 1
       /\ visits[d[2]][d[1]] >= 1
       /\ grid[d[2]][d[1]] # grid[c[2]][c[1]]

\* C5: a step of a running ant sets the facing to the table's entry for
\* (facing, turn), also when it stalls at the edge, and the displacement it
\* attempts is the one of the new facing.
C5_FacingTable ==
  [][RunningStep =>
       LET nf == NewFacing(ant.facing, TurnHere)
           target == Displace(nf, pos(ant))
       IN /\ ant'.facing = nf
          /\ \/ pos(ant') = target
             \/ /\ pos(ant') = pos(ant)
                /\ ant'.stalled
                /\ target \notin Cells]_vars

\* a step from West turned the ant North at the top edge: facing updated,
\* ant stalled in place
C5_Witness ==
  /\ calls > 0 /\ ~old.stalled /\ old.iterations < u64_max_value
  /\ old.facing = "W" /\ ant.facing = "N"
  /\ ant.stalled /\ pos(ant) = pos(old)

\* C6: if the new facing's displacement leaves the grid the step stalls the
\* ant in place, the cell still repainted; otherwise exactly one coordinate
\* changes by exactly 1 in the direction of the new facing.
C6_StallOrUnitMove ==
  [][RunningStep =>
       LET target == Displace(ant'.facing, pos(ant))
           dx == ant'.pos_x - ant.pos_x
           dy == ant'.pos_y - ant.pos_y
       IN /\ visits'[ant.pos_y][ant.pos_x] = visits[ant.pos_y][ant.pos_x] + 1
          /\ IF target \notin Cells
             THEN ant'.stalled /\ dx = 0 /\ dy = 0
             ELSE pos(ant') = target /\ Abs(dx) + Abs(dy) = 1]_vars

\* a step from East stalled at the bottom or top edge on a repainted cell
C6_Witness ==
  /\ calls > 0 /\ ~old.stalled /\ old.iterations < u64_max_value
  /\ old.facing = "E"
  /\ ant.stalled /\ pos(ant) = pos(old)
  /\ visits[ant.pos_y][ant.pos_x] >= 1
  /\ grid[ant.pos_y][ant.pos_x] # usize_max_value

\* C7 as stated: at (0,0) facing West on a cell whose rule entry turns
\* Left, one step stalls the ant and leaves it at (0,0).
C7_AsStated ==
  [][(RunningStep /\ pos(ant) = <<0, 0>> /\ ant.facing = "W" /\ TurnHere = "L")
       => (ant'.stalled /\ pos(ant') = <<0, 0>>)]_vars

\* C7 (amended): at (0,0) facing West on a cell whose rule entry turns
\* Right, one step stalls the ant and leaves it at (0,0), repainting no
\* other cell; and a stalled ant repaints nothing any more.
C7_CornerStall ==
  [][/\ (RunningStep /\ pos(ant) = <<0, 0>> /\ ant.facing = "W" /\ TurnHere = "R")
          => /\ ant'.stalled
             /\ pos(ant') = <<0, 0>>
             /\ \A c \in Cells \ {<<0, 0>>} : grid'[c[2]][c[1]] = grid[c[2]][c[1]]
     /\ ant.stalled => (ant'.stalled /\ grid' = grid)]_vars

\* the ant placed at (0,0) facing West has just turned Right and stalled
C7_Witness ==
  /\ calls > 0 /\ ~old.stalled /\ old.iterations < u64_max_value
  /\ pos(old) = <<0, 0>> /\ old.facing = "W"
  /\ ant.facing = "N" /\ ant.stalled /\ pos(ant) = <<0, 0>>
  /\ visits[0][0] >= 1

\* C8: a step of a running ant whose counter is at its maximum stalls the
\* ant and leaves the counter at the maximum.
C8_Saturation ==
  [][(RunningStep /\ ant.iterations = u64_max_value)
       => (ant'.stalled /\ ant'.iterations = u64_max_value)]_vars

\* a running ant reached the maximum count and the next step stalled it
C8_Witness ==
  /\ calls > u64_max_value
  /\ ~old.stalled /\ old.iterations = u64_max_value
  /\ ant.stalled /\ ant.iterations = u64_max_value

\* C9 as stated: the step that stalls the ant on overflow does not move it.
C9_AsStated ==
  [][(RunningStep /\ ant.iterations = u64_max_value)
       => pos(ant') = pos(ant)]_vars

\* C9 (amended): the step that stalls the ant on overflow first performs
\* the move of that step: the ant ends on the cell the new facing points
\* to, and stays in place only when that cell is outside the grid.
C9_MoveThenStall ==
  [][(RunningStep /\ ant.iterations = u64_max_value)
       => LET target == Displace(NewFacing(ant.facing, TurnHere), pos(ant))
          IN /\ ant'.stalled
             /\ pos(ant') = IF target \in Cells THEN target ELSE pos(ant)]_vars

\* the overflow step stalled the ant after moving it to another cell
C9_Witness ==
  /\ ~old.stalled /\ old.iterations = u64_max_value
  /\ ant.stalled
  /\ pos(ant) # pos(old)

\* C10: a step of a running ant ends stalled exactly when the new facing's
\* displacement leaves the grid or the counter was already at its maximum;
\* no step resets stalled.
C10_StateMachine ==
  [][/\ RunningStep =>
          (ant'.stalled <=>
             \/ Displace(NewFacing(ant.facing, TurnHere), pos(ant)) \notin Cells
             \/ ant.iterations = u64_max_value)
     /\ ant.stalled => ant'.stalled]_vars

\* after several running steps the ant stalled at the edge, counter below
\* its maximum
C10_Witness ==
  /\ calls >= 4
  /\ ~old.stalled /\ old.iterations < u64_max_value /\ old.iterations >= 3
  /\ ant.stalled
  /\ Displace(ant.facing, pos(old)) \notin Cells

\* C11: rule RL on a 3 x 3 unpainted grid, ant at (1,1) facing North: the
\* first three steps paint (1,1), (2,1), (2,2) with 1, turn the ant East,
\* South, West and move it to (2,1), (2,2), (1,2); it is then not stalled
\* and has counted 3 iterations.
C11_EndToEnd ==
  (ant.rule = <<"R", "L">> /\ dim = 3) =>
    /\ calls = 0 =>
         /\ pos(ant) = <<1, 1>> /\ ant.facing = "N"
         /\ \A c \in Cells : grid[c[2]][c[1]] = usize_max_value
    /\ calls = 1 =>
         grid[1][1] = 1 /\ ant.facing = "E" /\ pos(ant) = <<2, 1>>
    /\ calls = 2 =>
         grid[1][2] = 1 /\ ant.facing = "S" /\ pos(ant) = <<2, 2>>
    /\ calls = 3 =>
         /\ grid[2][2] = 1 /\ ant.facing = "W" /\ pos(ant) = <<1, 2>>
         /\ ~ant.stalled /\ ant.iterations = 3

\* the third step of the scenario has been taken
C11_Witness == ant.rule = <<"R", "L">> /\ dim = 3 /\ calls = 3

\* the run of n steps from the centre start of a d x d grid with the given
\* rule, the palette fixed
ReferenceRun(rule, d, n) ==
  run_steps(n,
    [ant |-> build_ant(Ant_new(start_point(d), start_point(d)), rule,
                       [i \in 1..Len(rule) |-> "c1"]),
     grid |-> Grid_new(d, d, usize_max_value),
     panic |-> "no",
     visits |-> [y \in 0..(d - 1) |-> [x \in 0..(d - 1) |-> 0]]])

C13_UnpaintedIffUnvisited ==
  /\ calls = 0 => \A c \in Cells : grid[c[2]][c[1]] = usize_max_value
  /\ usize_max_value \notin 0..(N - 1)
  /\ \A c \in Cells :
       (grid[c[2]][c[1]] = usize_max_value) <=> (visits[c[2]][c[1]] = 0)

\* a visited cell holds index 0 while another cell is still unpainted
C13_Witness ==
  \E c \in Cells, d \in Cells :
    /\ visits[c[2]][c[1]] >= 1 /\ grid[c[2]][c[1]] = 0
    /\ visits[d[2]][d[1]] = 0 /\ grid[d[2]][d[1]] = usize_max_value

\* main has built the ant and the grid
Constructed == ant # NoAnt \/ grid # NoGrid

\* C14: once built, the rule table and the palette have the same length
\* N >= 1, one entry per rule character, and no frame changes either.
C14_RuleAndPalette ==
  /\ [](Constructed =>
          /\ Len(ant.rule) = Len(ant.colours)
          /\ Len(ant.rule) >= 1
          /\ Len(ant.rule) = Len(driver.input.rule))
  /\ [][Constructed =>
          (ant'.rule = ant.rule /\ ant'.colours = ant.colours)]_vars

\* a frame has been drawn for a two-entry rule with two different colours
C14_Witness ==
  /\ driver.pc = "running" /\ driver.frames >= 1
  /\ Len(ant.rule) = 2 /\ Len(ant.colours) = 2
  /\ ant.colours[1] # ant.colours[2]
  /\ calls >= 1

\* the moves-per-second values the prompt lists
ListedMps == {1, 2, 5, 10, 20, 50, 100, 200, 500, 1000}

\* an entry the program must refuse: a rule with a character other than L
\* and R, a moves-per-second entry not listed, a grid size outside 10..1000
Refused(e) ==
  \/ \E i \in 1..Len(trim(e.rule)) : trim(e.rule)[i] \notin {"L", "R"}
  \/ e.mps.kind = "text"
  \/ e.mps.kind = "num" /\ e.mps.val \notin ListedMps
  \/ e.grid_size.kind = "text"
  \/ e.grid_size.kind = "num" /\ e.grid_size.val \notin 10..1000

\* C15: the ant and the grid exist only for a rule that is a non-empty
\* string over {L, R} (an empty entry read as RL), a listed
\* moves-per-second value and a grid size in 10..1000; on any other entry
\* the program has ended with neither built.
C15_RejectBeforeConstruction ==
  /\ Constructed =>
       LET e == driver.entered
           in == driver.input
       IN /\ ~Refused(e)
          /\ Len(in.rule) >= 1
          /\ \A i \in 1..Len(in.rule) : in.rule[i] \in {"L", "R"}
          /\ in.rule = IF trim(e.rule) = <<>> THEN <<"R", "L">> ELSE trim(e.rule)
          /\ ant.rule = in.rule
          /\ in.mps \in ListedMps
          /\ in.grid_size >= 10 /\ in.grid_size <= 1000
          /\ grid_dim(grid) = in.grid_size
  /\ driver.pc = "exited" => ~Constructed
  /\ (driver.pc # "start" /\ Refused(driver.entered))
       => (driver.pc = "exited" /\ ~Constructed)

\* a grid size of 9 was entered with everything else valid: the program
\* has ended and built nothing
C15_Witness ==
  /\ driver.pc = "exited"
  /\ driver.entered.grid_size = NumLine(9)
  /\ driver.entered.rule = <<"L", "R">>
  /\ driver.entered.mps = NumLine(10)
  /\ driver.entered.square_size = EmptyLine
  /\ ~Constructed

\* C16: a step of a running ant changes no cell other than the one the
\* ant stood on before the step.
C16_OnlyCurrentCellWritten ==
  [][RunningStep =>
       /\ DOMAIN grid' = DOMAIN grid
       /\ \A c \in Cells \ {pos(ant)} :
            grid'[c[2]][c[1]] = grid[c[2]][c[1]]]_vars

\* the latest step repainted the ant's cell while two other cells were
\* already painted
C16_Witness ==
  /\ calls > 0 /\ ~old.stalled
  /\ grid[old.pos_y][old.pos_x] # usize_max_value
  /\ Cardinality({c \in Cells \ {pos(old)} :
                    grid[c[2]][c[1]] # usize_max_value}) >= 2

\* the number of cell repaints performed so far
RECURSIVE SumRow(_, _)
SumRow(row, x) ==
  IF x < 0 THEN 0 ELSE row[x] + SumRow(row, x - 1)

RECURSIVE SumRows(_, _)
SumRows(v, y) ==
  IF y < 0 THEN 0 ELSE SumRow(v[y], Cardinality(DOMAIN v[y]) - 1) + SumRows(v, y - 1)

Repaints == SumRows(visits, Cardinality(DOMAIN visits) - 1)

\* C17: a step of a running ant whose counter is below the maximum adds
\* exactly 1 to iterations, also when it stalls at the edge; iterations
\* never decreases; below the maximum it equals the number of repaints.
C17_IterationsCountRepaints ==
  /\ [](ant.iterations < u64_max_value => ant.iterations = Repaints)
  /\ [][/\ (RunningStep /\ ant.iterations < u64_max_value)
             => ant'.iterations = ant.iterations + 1
        /\ ant'.iterations >= ant.iterations]_vars

\* the step that stalled the ant at the edge without moving was counted
C17_Witness ==
  /\ calls > 0 /\ ~old.stalled /\ old.iterations < u64_max_value
  /\ ant.stalled /\ pos(ant) = pos(old)
  /\ ant.iterations = old.iterations + 1
  /\ ant.iterations = Repaints

\* a render event of the running program
FrameStep == driver.pc = "running" /\ driver'.frames = driver.frames + 1

\* C18: for every accepted moves-per-second value fps * moves_per_tick is
\* that value with moves_per_tick >= 1; a frame calls the stepper exactly
\* moves_per_tick times, so iterations grows by at most moves_per_tick,
\* and by exactly moves_per_tick when the ant is running and the counter
\* below its maximum at each of the frame's calls.
C18_MovesPerFrame ==
  /\ [](driver.pc \in {"running", "closed"} =>
          /\ driver.input.mps \in ListedMps
          /\ driver.fps * driver.moves_per_tick = driver.input.mps
          /\ driver.moves_per_tick >= 1)
  /\ [][FrameStep =>
          LET k == driver.moves_per_tick
              before_last == run_steps(k - 1,
                               [ant |-> ant, grid |-> grid, panic |-> "no",
                                visits |-> visits])
          IN /\ calls' = calls + k
             /\ Repaints' <= Repaints + k
             /\ ant'.iterations >= ant.iterations
             /\ ant'.iterations <= ant.iterations + k
             /\ (~before_last.ant.stalled
                   /\ before_last.ant.iterations < u64_max_value)
                  => ant'.iterations = ant.iterations + k]_vars

\* at 500 moves per second one frame of 10 calls has been drawn and
\* counted 10 iterations
C18_Witness ==
  /\ driver.pc = "running" /\ driver.frames = 1
  /\ driver.input.mps = 500 /\ driver.fps = 50 /\ driver.moves_per_tick = 10
  /\ calls = 10 /\ ant.iterations = old.iterations + 10

\* C19: from the centre start facing North, while iterations is below the
\* maximum the ant faces East or West exactly when iterations is odd (and
\* North or South exactly when it is even).
C19_FacingParity ==
  ant.iterations < u64_max_value =>
    /\ (ant.facing \in {"E", "W"}) <=> (ant.iterations % 2 = 1)
    /\ (ant.facing \in {"N", "S"}) <=> (ant.iterations % 2 = 0)

\* the step that stalled the ant at the edge was counted and turned it
C19_Witness ==
  /\ calls > 0 /\ ~old.stalled
  /\ ant.stalled /\ pos(ant) = pos(old)
  /\ ant.iterations < u64_max_value
  /\ ant.iterations % 2 = 1 /\ ant.facing \in {"E", "W"}
  /\ old.facing \in {"N", "S"}

\* C20: under repeated stepping the ant eventually is stalled for good, at
\* the edge or at the latest when the counter saturates, and from then on
\* the ant and the grid stay as they are.
C20_Termination ==
  /\ <>[](ant.stalled)
  /\ [](ant.stalled => [](ant.stalled))
  /\ [][ant.stalled =>
          (AntState(ant') = AntState(ant) /\ grid' = grid)]_vars

\* an ant that never met an edge was stalled by the saturated counter and
\* stepping went on
C20_Witness ==
  /\ ant.stalled /\ old.stalled
  /\ ant.iterations = u64_max_value
  /\ Repaints = u64_max_value + 1
  /\ calls > u64_max_value + 1

====
